---- MODULE Spec2Model ----
(***************************************************************************)
(* A model of the encryption core of encrypt-document-management           *)
(* (src/encrypt.ts): Encrypt.encryptText and Encrypt.decryptText, the      *)
(* CryptoJS word arrays they build, the 4-byte marker MAGIC_WORDS, and the *)
(* CBC / Pkcs7 cipher calls they make.                                      *)
(*                                                                         *)
(* Bytes are 0..255, ArrayBuffers are sequences of bytes held in a heap,   *)
(* a string is the sequence of its UTF-16 code units, and a CryptoJS       *)
(* WordArray is a record [words, sigBytes] of signed 32-bit words.         *)
(* The AES block function itself is library code: it is modelled as a      *)
(* keyed permutation of 16-byte blocks (BlockEnc / BlockDec), the mode and *)
(* the padding around it as CryptoJS computes them.                        *)
(*                                                                         *)
(* The second half models the plugin around it (src/main.ts): the files of *)
(* the vault, the settings, lastActiveFile, the "file-open" and "quit"     *)
(* handlers, the two buttons of the document list, and the asynchronous    *)
(* encryptFile / decryptFile, which give up control at their two awaits,   *)
(* and the settings tab with its key field and its generate-key button.    *)
(* The handlers and the generate-key button of the other plugin source     *)
(* (src/unnamed/part_000) are modelled beside them.                        *)
(***************************************************************************)
EXTENDS Integers, Sequences, FiniteSets, TLC

VARIABLES
    heap,           \* the ArrayBuffers that exist: heap[id] is the bytes of buffer id
    MAGIC_WORDS,    \* the module-level WordArray of src/encrypt.ts:5
    Encrypt_key,    \* the static field Encrypt.key of src/encrypt.ts:9
    keys,           \* the key strings the caller uses in this run
    log,            \* one record per finished call of encryptText / decryptText
    files,          \* the vault: files[f] is the stored bytes of file f
    initialFiles,   \* the vault as it was when the plugin was loaded
    settings,       \* EncryptPlugin.settings of src/main.ts:32
    lastActiveFile, \* EncryptPlugin.lastActiveFile of src/main.ts:33
    ops,            \* the encryptFile / decryptFile calls in progress, in the order of start
    notice,         \* the text of the Notice shown last
    handlers,       \* the invocations of an async "file-open" handler, in order
    delivered,      \* what the workspace has delivered: events and clicks
    saved,          \* the settings saveData wrote last (data.json)
    tab,            \* the username and password fields of EncryptSettingTab
    onFileOpen,     \* EncryptPlugin.onFileOpen of src/main.ts:34
    called          \* the handler or continuation that ran last, and the calls it made

coreVars == <<heap, MAGIC_WORDS, Encrypt_key, keys, log>>
hostVars ==
    <<files, initialFiles, settings, lastActiveFile, ops, notice, handlers, delivered,
      saved, tab, onFileOpen, called>>
vars == <<heap, MAGIC_WORDS, Encrypt_key, keys, log,
          files, initialFiles, settings, lastActiveFile, ops, notice, handlers, delivered,
          saved, tab, onFileOpen, called>>

----------------------------------------------------------------------------
(* Bounds of the model.                                                    *)

\* longest plaintext the caller hands to encryptText
MaxLen == 17
\* calls per run of Spec
MaxCalls == 2
\* calls per run of SpecSeq
MaxSeqCalls == 3
\* "file-open" events per run of SpecAuto
MaxOpens == 3
\* button clicks per run of SpecButtons
MaxClicks == 3
\* an event or click is delivered while at most this many operations are in progress
MaxPending == 1
\* events of the settings tab and of the workspace per run of SpecSettings
MaxEdits == 3

----------------------------------------------------------------------------
(* Program constants.                                                      *)

\* 0x000273db, the only word of MAGIC_WORDS
MAGIC_WORD == 160731
\* the sigBytes MAGIC_WORDS is created with
MAGIC_SIG_BYTES == 4
\* key.slice(0, 16) and key.slice(16, 48)
IV_END == 16
KEY_END == 48
\* the AES block size in bytes (CryptoJS: blockSize 128/32 words)
BLOCK_BYTES == 16

\* messages of the errors decryptText throws: "不是有效的密文", "请检查密钥是否正确"
MSG_INVALID_FRAME == "not valid ciphertext"
MSG_CHECK_KEY == "check key correctness"
\* the message of the RangeError of new ArrayBuffer(n) with n < 0
MSG_RANGE == "Invalid array buffer length"
\* the prefix encryptText puts before a caught error's message: "加密失败: "
MSG_ENCRYPT_PREFIX == "encryption failed: "
\* the TypeError of key.slice on a key that is null
MSG_NULL_SLICE == "Cannot read properties of null (reading 'slice')"

----------------------------------------------------------------------------
(* Arithmetic on bytes and words.                                          *)

Min(a, b) == IF a < b THEN a ELSE b
Max(a, b) == IF a > b THEN a ELSE b

\* ceil(n / d) for d > 0 and any integer n
CeilDiv(n, d) == -((-n) \div d)

RECURSIVE XorBits(_, _, _)
XorBits(a, b, n) ==
    IF n = 0 THEN 0
    ELSE ((a + b) % 2) + 2 * XorBits(a \div 2, b \div 2, n - 1)

\* a ^ b on bytes
Xor(a, b) == XorBits(a, b, 8)

\* x ^ y on sequences of bytes of the same length
XorSeq(x, y) == [i \in 1..Len(x) |-> Xor(x[i], y[i])]

\* s.slice(from, to) of a string or array, 0-based and end-exclusive
Slice(s, from, to) ==
    LET a == Min(from, Len(s))
        b == Min(to, Len(s))
    IN  IF b <= a THEN <<>> ELSE SubSeq(s, a + 1, b)

\* byte i (0-based) of a word array: (words[i >>> 2] >>> (24 - (i % 4) * 8)) & 0xff,
\* a word that is not there (undefined) reading as 0
ByteOfWords(words, i) ==
    LET w == IF (i \div 4) + 1 <= Len(words) THEN words[(i \div 4) + 1] ELSE 0
    IN  (w \div (2 ^ (24 - (i % 4) * 8))) % 256

----------------------------------------------------------------------------
(* CryptoJS.lib.WordArray.                                                 *)

\* the big-endian word made of up to four bytes, missing bytes reading as 0;
\* a word is a signed 32-bit integer, as the |= and << of the library leave it
WordOfBytes(bytes, w) ==
    LET b(k) == IF 4 * (w - 1) + k <= Len(bytes) THEN bytes[4 * (w - 1) + k] ELSE 0
    IN  (IF b(1) >= 128 THEN b(1) - 256 ELSE b(1)) * 16777216
            + b(2) * 65536 + b(3) * 256 + b(4)

\* CryptoJS.lib.WordArray.create(new Uint8Array(...)):
\* words[i >>> 2] |= typedArray[i] << (24 - (i % 4) * 8), sigBytes = byteLength
WordArrayCreate(bytes) ==
    [words |-> [w \in 1..CeilDiv(Len(bytes), 4) |-> WordOfBytes(bytes, w)],
     sigBytes |-> Len(bytes)]

\* the bytes a word array stands for (its first sigBytes bytes)
BytesOf(wordArray) ==
    [i \in 1..Max(wordArray.sigBytes, 0) |-> ByteOfWords(wordArray.words, i - 1)]

\* wordArray.clone(): a copy, the receiver is left as it is
WClone(wordArray) == [words |-> wordArray.words, sigBytes |-> wordArray.sigBytes]

\* a.concat(b): the value the receiver a has afterwards (concat changes its
\* receiver and returns it).  With a.sigBytes a multiple of 4 the words of b are
\* copied behind those of a, otherwise byte by byte.
WConcat(a, b) ==
    IF a.sigBytes % 4 = 0
    THEN [words |-> SubSeq(a.words, 1, a.sigBytes \div 4)
                    \o [w \in 1..CeilDiv(Max(b.sigBytes, 0), 4) |->
                           IF w <= Len(b.words) THEN b.words[w] ELSE 0],
          sigBytes |-> a.sigBytes + b.sigBytes]
    ELSE WordArrayCreate(BytesOf(a) \o BytesOf(b))

\* little-endian variant of the byte extraction of wordArrayToArrayBuffer
wordArrayToArrayBuffer_LE(wordArray) ==
    [i \in 1..Max(wordArray.sigBytes, 0) |->
        LET w == IF ((i - 1) \div 4) + 1 <= Len(wordArray.words)
                 THEN wordArray.words[((i - 1) \div 4) + 1] ELSE 0
        IN  (w \div (2 ^ (((i - 1) % 4) * 8))) % 256]

\* Encrypt.wordArrayToArrayBuffer: the bytes of the new ArrayBuffer(sigBytes),
\* view[i] = (words[i >>> 2] >>> (24 - (i % 4) * 8)) & 0xff
wordArrayToArrayBuffer(wordArray) ==
    [i \in 1..Max(wordArray.sigBytes, 0) |-> ByteOfWords(wordArray.words, i - 1)]

\* new ArrayBuffer(n) throws a RangeError for a negative n
NewArrayBufferThrows(n) == n < 0

----------------------------------------------------------------------------
(* Strings to bytes: TextEncoder, TextDecoder, CryptoJS.enc.Utf8.parse.    *)

IsHighSurrogate(c) == c >= 55296 /\ c <= 56319
IsLowSurrogate(c) == c >= 56320 /\ c <= 57343

\* the UTF-8 bytes of one code point
Utf8OfCodePoint(c) ==
    IF c < 128 THEN <<c>>
    ELSE IF c < 2048 THEN <<192 + (c \div 64), 128 + (c % 64)>>
    ELSE IF c < 65536
         THEN <<224 + (c \div 4096), 128 + ((c \div 64) % 64), 128 + (c % 64)>>
    ELSE <<240 + (c \div 262144), 128 + ((c \div 4096) % 64),
           128 + ((c \div 64) % 64), 128 + (c % 64)>>

\* new TextEncoder().encode(str): a surrogate pair is one code point, a lone
\* surrogate is encoded as U+FFFD
RECURSIVE TextEncode(_)
TextEncode(str) ==
    IF str = <<>> THEN <<>>
    ELSE IF IsHighSurrogate(str[1]) /\ Len(str) >= 2 /\ IsLowSurrogate(str[2])
         THEN Utf8OfCodePoint(65536 + (str[1] - 55296) * 1024 + (str[2] - 56320))
              \o TextEncode(SubSeq(str, 3, Len(str)))
    ELSE IF IsHighSurrogate(str[1]) \/ IsLowSurrogate(str[1])
         THEN Utf8OfCodePoint(65533) \o TextEncode(Tail(str))
    ELSE Utf8OfCodePoint(str[1]) \o TextEncode(Tail(str))

\* the code units of one decoded code point
UnitsOfCodePoint(c) ==
    IF c < 65536 THEN <<c>>
    ELSE <<55296 + ((c - 65536) \div 1024), 56320 + ((c - 65536) % 1024)>>

\* UTF-8 decoding of well-formed bytes (all that TextEncode produces)
RECURSIVE Utf8Decode(_)
Utf8Decode(bytes) ==
    IF bytes = <<>> THEN <<>>
    ELSE LET b == bytes[1]
             n == IF b < 128 THEN 1 ELSE IF b < 224 THEN 2 ELSE IF b < 240 THEN 3 ELSE 4
             c(k) == bytes[k] % 64
         IN  IF Len(bytes) < n THEN <<65533>>
             ELSE UnitsOfCodePoint(
                      IF n = 1 THEN b
                      ELSE IF n = 2 THEN (b % 32) * 64 + c(2)
                      ELSE IF n = 3 THEN (b % 16) * 4096 + c(2) * 64 + c(3)
                      ELSE (b % 8) * 262144 + c(2) * 4096 + c(3) * 64 + c(4))
                  \o Utf8Decode(SubSeq(bytes, n + 1, Len(bytes)))

\* new TextDecoder().decode(bytes): UTF-8, a leading byte order mark is dropped
TextDecode(bytes) ==
    IF Len(bytes) >= 3 /\ SubSeq(bytes, 1, 3) = <<239, 187, 191>>
    THEN Utf8Decode(SubSeq(bytes, 4, Len(bytes)))
    ELSE Utf8Decode(bytes)

\* CryptoJS.enc.Utf8.parse(str): the word array of the UTF-8 bytes of str
Utf8Parse(str) == WordArrayCreate(TextEncode(str))

\* the cipher key taken from character 16 to the end of the string
DerivedKey_ToEnd(key) == WordArrayCreate(TextEncode(Slice(key, IV_END, Len(key))))

\* the key argument of encryptText / decryptText (lines 27-29, 71-73):
\* WordArray.create(new Uint8Array(new TextEncoder().encode(key.slice(16, 48))))
DerivedKey(key) == WordArrayCreate(TextEncode(Slice(key, IV_END, KEY_END)))

\* the iv sliced from the characters [16,32), behind the iv part
DerivedIV_WrongSlice(key) ==
    Utf8Parse(TextDecode(TextEncode(Slice(key, IV_END, 2 * IV_END))))

\* the iv option (lines 31-33, 75-78):
\* Utf8.parse(new TextDecoder().decode(new TextEncoder().encode(key.slice(0, 16))))
DerivedIV(key) == Utf8Parse(TextDecode(TextEncode(Slice(key, 0, IV_END))))

----------------------------------------------------------------------------
(* CryptoJS.AES in CBC mode with Pkcs7 padding (the defaults the calls of   *)
(* lines 25-38 and 69-83 use).  The key is given as a word array, so no     *)
(* password derivation takes place and nothing is drawn at random.          *)

\* all key bytes mixed into one byte, each with an odd weight
RECURSIVE KeyMix(_, _)
KeyMix(keyBytes, j) ==
    IF j > Len(keyBytes) THEN 0
    ELSE (keyBytes[j] * (2 * j + 1) + KeyMix(keyBytes, j + 1)) % 256

\* the key schedule: CryptoJS derives it from however many key bytes it is
\* given, of any length, without a check; every byte of it depends on every
\* byte of the key
KeySchedule(keyWords) ==
    LET keyBytes == BytesOf(keyWords)
        mix == KeyMix(keyBytes, 1)
    IN  [i \in 1..BLOCK_BYTES |-> (mix * (2 * i + 1) + Len(keyBytes)) % 256]

Rot(i) == ((i + 4) % BLOCK_BYTES) + 1
RotInv(j) == ((j + 10) % BLOCK_BYTES) + 1

\* the block function: for every key schedule a permutation of the blocks
BlockEnc(rk, block) ==
    [i \in 1..BLOCK_BYTES |-> (5 * ((block[Rot(i)] + rk[i]) % 256) + 17) % 256]

\* its inverse
BlockDec(rk, block) ==
    [j \in 1..BLOCK_BYTES |->
        (205 * (block[RotInv(j)] + 256 - 17) + 256 - rk[RotInv(j)]) % 256]

\* the first block's chaining value: the first four words of the iv, a word
\* that is not there leaving the block as it is (x ^ undefined is x)
IvBlock(iv) == [i \in 1..BLOCK_BYTES |-> ByteOfWords(iv.words, i - 1)]

\* Pkcs7.pad: always 1..16 bytes, each holding their number
Pkcs7Pad(bytes) ==
    LET n == BLOCK_BYTES - (Len(bytes) % BLOCK_BYTES)
    IN  bytes \o [i \in 1..n |-> n]

\* block number j of data, bytes that are not there reading as 0
BlockAt(data, j) ==
    [i \in 1..BLOCK_BYTES |->
        IF (j - 1) * BLOCK_BYTES + i <= Len(data)
        THEN data[(j - 1) * BLOCK_BYTES + i] ELSE 0]

RECURSIVE CbcEncryptBlocks(_, _, _, _, _)
CbcEncryptBlocks(rk, prev, data, j, n) ==
    IF j > n THEN <<>>
    ELSE LET c == BlockEnc(rk, XorSeq(BlockAt(data, j), prev))
         IN  c \o CbcEncryptBlocks(rk, c, data, j + 1, n)

RECURSIVE CbcDecryptBlocks(_, _, _, _, _)
CbcDecryptBlocks(rk, prev, data, j, n) ==
    IF j > n THEN <<>>
    ELSE LET c == BlockAt(data, j)
         IN  XorSeq(BlockDec(rk, c), prev) \o CbcDecryptBlocks(rk, c, data, j + 1, n)

\* CryptoJS.AES.encrypt(message, key, {iv, mode: CBC}).ciphertext
AesEncrypt(message, key, iv) ==
    LET padded == Pkcs7Pad(BytesOf(message))
    IN  WordArrayCreate(CbcEncryptBlocks(KeySchedule(key), IvBlock(iv), padded,
                                         1, Len(padded) \div BLOCK_BYTES))

\* the data the decryptor has processed before unpadding: every block begun is
\* processed, sigBytes stays that of the ciphertext
AesDecryptRaw(ciphertext, key, iv) ==
    LET data == BytesOf(ciphertext)
        n == CeilDiv(Len(data), BLOCK_BYTES)
    IN  [words |-> WordArrayCreate(CbcDecryptBlocks(KeySchedule(key), IvBlock(iv),
                                                    data, 1, n)).words,
         sigBytes |-> ciphertext.sigBytes]

\* Pkcs7.unpad: nPaddingBytes = data.words[(data.sigBytes - 1) >>> 2] & 0xff and
\* data.sigBytes -= nPaddingBytes; the padding bytes are not looked at
Pkcs7Unpad(data) ==
    LET nPaddingBytes ==
            IF data.sigBytes >= 1
            THEN ByteOfWords(data.words, 4 * ((data.sigBytes - 1) \div 4) + 3)
            ELSE 0
    IN  [words |-> data.words, sigBytes |-> data.sigBytes - nPaddingBytes]

\* CryptoJS.AES.decrypt(content, key, {iv, mode: CBC})
AesDecrypt(ciphertext, key, iv) == Pkcs7Unpad(AesDecryptRaw(ciphertext, key, iv))

----------------------------------------------------------------------------
(* Encrypt.encryptText and Encrypt.decryptText.  A call's outcome is a      *)
(* record: status "ok" with the bytes of the returned ArrayBuffer in out,   *)
(* or status "error" with the message of the Error thrown; cipher tells     *)
(* whether the call reached CryptoJS.AES.                                    *)

Returned(bytes) == [status |-> "ok", msg |-> "", out |-> bytes, cipher |-> TRUE]
Thrown(message, reached) ==
    [status |-> "error", msg |-> message, out |-> <<>>, cipher |-> reached]

\* the frame without its marker, as the marker-less encoder of the lineage built it
encryptText_frame_NoMarker(magic, ciphertext) == ciphertext

\* line 40: MAGIC_WORDS.clone().concat(encrypted.ciphertext)
encryptText_frame(magic, ciphertext) == WConcat(WClone(magic), ciphertext)

\* concat called on MAGIC_WORDS itself
encryptText_MAGIC_WORDS_NoClone(magic, ciphertext) == WConcat(magic, ciphertext)

\* MAGIC_WORDS after line 40: concat changes the clone, MAGIC_WORDS stays
encryptText_MAGIC_WORDS(magic, ciphertext) == magic

\* the key kept in the static field
Encrypt_key_Cached(static, key) == key

\* Encrypt.key after a call: declared at line 9, assigned nowhere
Encrypt_key_After(static, key) == static

\* encrypted.ciphertext of lines 25-38
encryptText_ciphertext(buffer, key) ==
    AesEncrypt(WordArrayCreate(buffer), DerivedKey(key), DerivedIV(key))

\* the type annotation "key: string" is not checked when the code runs: a key
\* that is null (a settings file that holds no string) is written <<-1>>
KeyNull == <<-1>>

\* lines 28, 32, 73, 77: key.slice throws a TypeError on null
KeySliceThrows(key) == key = KeyNull

\* the error thrown again as it was caught
encryptText_catch_Bare(message) == message

\* lines 41-43: catch (error) { throw new Error("... " + error.message) }
encryptText_catch(message) == MSG_ENCRYPT_PREFIX \o message

\* lines 23-44
encryptText(buffer, key, magic) ==
    LET frame == encryptText_frame(magic, encryptText_ciphertext(buffer, key))
    IN  IF KeySliceThrows(key)
        THEN Thrown(encryptText_catch(MSG_NULL_SLICE), FALSE)
        ELSE IF NewArrayBufferThrows(frame.sigBytes)
        THEN Thrown(encryptText_catch(MSG_RANGE), TRUE)
        ELSE Returned(wordArrayToArrayBuffer(frame))

\* no check of the frame at all, as in the marker-less decoder of the lineage
InvalidFrame_None(content, magic) == FALSE

\* the marker compared on its upper 16 bits only
MagicMismatch_Hi16(content, magic) ==
    (IF content.words = <<>> THEN 0 ELSE content.words[1] \div 65536)
        # (magic.words[1] \div 65536)

\* lines 59-60: magicGot !== (MAGIC_WORDS.words[0] >>> 0), with
\* magicGot = content.ciphertext.words[0] >>> 0 (0 for a missing word)
MagicMismatch(content, magic) ==
    (IF content.words = <<>> THEN 0 ELSE content.words[1]) # magic.words[1]

\* lines 55-62: the two checks that throw "not valid ciphertext"
InvalidFrame(content, magic) ==
    \/ content.sigBytes < 4
    \/ MagicMismatch(content, magic)

\* lines 64-67: WordArray.create(words.slice(1), sigBytes - MAGIC_WORDS.sigBytes)
StripMarker(content, magic) ==
    [words |-> Slice(content.words, 1, Len(content.words)),
     sigBytes |-> content.sigBytes - magic.sigBytes]

\* line 86: !decrypted, for the ArrayBuffer wordArrayToArrayBuffer returned;
\* an object is never falsy, whatever its length
IsFalsy(decrypted) == FALSE

\* lines 47-93; the catch of lines 90-92 rethrows with the message unchanged
decryptText(buffer, key, magic) ==
    LET content == WordArrayCreate(buffer)
        bytes == AesDecrypt(StripMarker(content, magic), DerivedKey(key), DerivedIV(key))
    IN  IF InvalidFrame(content, magic) THEN Thrown(MSG_INVALID_FRAME, FALSE)
        ELSE IF KeySliceThrows(key) THEN Thrown(MSG_NULL_SLICE, FALSE)
        ELSE IF NewArrayBufferThrows(bytes.sigBytes) THEN Thrown(MSG_RANGE, TRUE)
        ELSE IF IsFalsy(wordArrayToArrayBuffer(bytes)) THEN Thrown(MSG_CHECK_KEY, TRUE)
        ELSE Returned(wordArrayToArrayBuffer(bytes))

----------------------------------------------------------------------------
(* The inputs the caller draws from.                                       *)

\* a 48-character ASCII key string (lower-case letters)
KeyBase == [i \in 1..KEY_END |-> 97 + ((i * 7) % 26)]

\* key with the character at position pos (from 1) replaced by c
WithChar(key, pos, c) == [key EXCEPT ![pos] = c]

KeyLonger == KeyBase \o <<120>>                 \* 49 characters, the first 48 of KeyBase
KeyIvFirst == WithChar(KeyBase, 1, 65)          \* differs in the first iv character
KeyIvMid == WithChar(KeyBase, 15, 66)           \* differs in the 15th iv character
KeyIvLast == WithChar(KeyBase, 16, 67)          \* differs in the last iv character
KeyOther == WithChar(KeyBase, 20, 68)           \* differs in the cipher key part
KeyEmpty == <<>>                                \* the default setting: ""
KeyShort == SubSeq(KeyBase, 1, 20)              \* 4 bytes of cipher key
Key40 == SubSeq(KeyBase, 1, 40)                 \* 24 bytes of cipher key
KeyIvWide == WithChar(KeyBase, 3, 233)          \* a two-byte character in the iv part
KeyKeyWide == WithChar(KeyBase, 30, 20013)      \* a three-byte character in the key part

AllKeys ==
    {KeyBase, KeyLonger, KeyIvFirst, KeyIvMid, KeyIvLast, KeyOther, KeyEmpty,
     KeyShort, Key40, KeyIvWide, KeyKeyWide, KeyNull}

\* the pairs of key strings a run of Spec uses
KeyPairs == {<<KeyBase, k>> : k \in AllKeys \ {KeyBase}} \cup {<<KeyOther, KeyLonger>>}

\* the pairs of key strings a run of SpecSeq uses
SeqKeyPairs == {<<KeyBase, KeyOther>>, <<KeyBase, KeyEmpty>>}

\* a plaintext of n bytes
PlainOf(n) == [i \in 1..n |-> (i * 37 + n * 11) % 256]

Plaintexts == {PlainOf(n) : n \in 0..MaxLen}

\* the marker bytes 00 02 73 DB
MarkerBytes == <<0, 2, 115, 219>>

\* buffers that are no output of encryptText
RawBuffers ==
    {<<0>>, <<0, 2>>, <<0, 2, 115>>,
     MarkerBytes,
     <<0, 2, 115, 220>> \o PlainOf(16),
     <<1, 2, 115, 219>> \o PlainOf(16),
     <<0, 2, 0, 0>> \o PlainOf(16),
     PlainOf(20),
     MarkerBytes \o PlainOf(5),
     MarkerBytes \o PlainOf(16)}

Inputs == Plaintexts \cup RawBuffers

\* the buffers a run of SpecSeq starts from
SeqInputs == {PlainOf(0), PlainOf(5), PlainOf(16), MarkerBytes \o PlainOf(16)}

----------------------------------------------------------------------------
(* The state machine: a caller that holds buffers and calls the two static  *)
(* methods, one call after the other (both are synchronous).                *)

\* line 5: CryptoJS.lib.WordArray.create([0x000273db], 4)
MAGIC_WORDS_Init == [words |-> <<MAGIC_WORD>>, sigBytes |-> MAGIC_SIG_BYTES]

\* no file
NullFile == "null"

\* src/main.ts:22-27: the settings before anything has been saved
DEFAULT_SETTINGS == [encryptionKey |-> <<>>, autoEncryptionDecryption |-> FALSE]

\* nothing delivered yet
NothingDelivered ==
    [opens |-> 0, lastOpened |-> NullFile, quit |-> FALSE, clicks |-> 0, edits |-> 0]

\* src/main.ts:303-304: the fields of the settings tab as constructed
EmptyTab == [username |-> <<>>, password |-> <<>>]

\* what a step has run and called: the handler or continuation by, and its
\* calls to Encrypt, to saveData and to the onFileOpen callback, in order
Ran(by, calls) == [by |-> by, calls |-> calls]

\* the plugin as constructed (src/main.ts:31-34), over the vault vault
PluginLoaded(vault, loaded) ==
    /\ files = vault
    /\ initialFiles = vault
    /\ settings = loaded
    /\ lastActiveFile = NullFile
    /\ ops = <<>>
    /\ notice = ""
    /\ handlers = <<>>
    /\ delivered = NothingDelivered
    /\ saved = loaded
    /\ tab = EmptyTab
    /\ onFileOpen = "undefined"
    /\ called = Ran("onload", <<>>)

InitWith(inputs, pairs) ==
    /\ heap \in {<<b>> : b \in inputs}
    /\ keys \in pairs
    /\ MAGIC_WORDS = MAGIC_WORDS_Init
    /\ Encrypt_key = "undefined"
    /\ log = <<>>
    /\ PluginLoaded(<<>>, DEFAULT_SETTINGS)

Init == InitWith(Inputs, KeyPairs)

InitSeq == InitWith(SeqInputs, SeqKeyPairs)

\* the result is written into the caller's buffer
ResultBuffer_InPlace(h, b) == b

\* line 13: new ArrayBuffer(sigBytes), a buffer that did not exist before
ResultBuffer(h, b) == Len(h) + 1

\* the heap after a call on buffer b with outcome r
HeapAfter(h, b, r) ==
    IF r.status # "ok" THEN h
    ELSE IF ResultBuffer(h, b) = Len(h) + 1 THEN Append(h, r.out)
    ELSE [h EXCEPT ![ResultBuffer(h, b)] = r.out]

\* what the log keeps of a call
LogEntry(op, b, key, r, h) ==
    [op |-> op, buf |-> b, inp |-> h[b], key |-> key, status |-> r.status,
     msg |-> r.msg, cipher |-> r.cipher, bufs |-> Len(h),
     out |-> IF r.status = "ok" THEN ResultBuffer(h, b) ELSE 0,
     outp |-> r.out]

\* a call Encrypt.encryptText(buffer, key)
CallEncrypt(max) ==
    /\ Len(log) < max
    /\ \E b \in 1..Len(heap), k \in {keys[1], keys[2]} :
        LET r == encryptText(heap[b], k, MAGIC_WORDS)
        IN  /\ heap' = HeapAfter(heap, b, r)
            /\ MAGIC_WORDS' =
                   IF r.cipher
                   THEN encryptText_MAGIC_WORDS(MAGIC_WORDS,
                                                encryptText_ciphertext(heap[b], k))
                   ELSE MAGIC_WORDS
            /\ Encrypt_key' = Encrypt_key_After(Encrypt_key, k)
            /\ log' = Append(log, LogEntry("encrypt", b, k, r, heap))
    /\ UNCHANGED keys
    /\ UNCHANGED hostVars

\* a call Encrypt.decryptText(buffer, key)
CallDecrypt(max) ==
    /\ Len(log) < max
    /\ \E b \in 1..Len(heap), k \in {keys[1], keys[2]} :
        LET r == decryptText(heap[b], k, MAGIC_WORDS)
        IN  /\ heap' = HeapAfter(heap, b, r)
            /\ Encrypt_key' = Encrypt_key_After(Encrypt_key, k)
            /\ log' = Append(log, LogEntry("decrypt", b, k, r, heap))
    /\ UNCHANGED <<keys, MAGIC_WORDS>>
    /\ UNCHANGED hostVars

Next == CallEncrypt(MaxCalls) \/ CallDecrypt(MaxCalls)

Spec == Init /\ [][Next]_vars

NextSeq == CallEncrypt(MaxSeqCalls) \/ CallDecrypt(MaxSeqCalls)

SpecSeq == InitSeq /\ [][NextSeq]_vars

----------------------------------------------------------------------------
(* The plugin of src/main.ts.  encryptFile and decryptFile are async: each  *)
(* call runs to its first await (readBinary), is resumed with the content   *)
(* read, transforms it and awaits modifyBinary, and is resumed once more    *)
(* when the write is done.  Between these points other code runs.           *)

\* the files of the vault
Files == {"A", "B"}

\* the texts of the Notices (translated)
NOTICE_EMPTY == "file is empty"
NOTICE_ENCRYPTED == "encrypted"
NOTICE_DECRYPTED == "decrypted"
NOTICE_ENCRYPT_FAILED == "encryption failed: "
NOTICE_DECRYPT_FAILED == "decryption failed: "
\* the TypeError of vault.readBinary(null)
MSG_NULL_FILE == "Cannot read properties of null (reading 'path')"

\* the key the vault of a run was encrypted with
HostKey == KeyBase

\* the frame of plaintext plain under HostKey
FrameOf(plain) == encryptText(plain, HostKey, MAGIC_WORDS_Init).out

\* the plaintext of file f
PlainFile(f) == IF f = "A" THEN PlainOf(5) ELSE PlainOf(16)

\* the vaults a run starts from: every file encrypted, or all but file "A",
\* which holds its plaintext or nothing
Encrypted == [f \in Files |-> FrameOf(PlainFile(f))]
Vaults == {Encrypted,
           [Encrypted EXCEPT !["A"] = PlainFile("A")],
           [Encrypted EXCEPT !["A"] = <<>>]}

\* an encryptFile / decryptFile call that has reached its first await
NewOp(kind, file) ==
    [kind |-> kind, file |-> file, pc |-> "read", status |-> "pending",
     content |-> <<>>, result |-> <<>>]

\* a call that ended in its catch block or at "return", with one Notice
Ended(status, text) ==
    [pc |-> "done", status |-> status, result |-> <<>>, notice |-> text]

\* a call that awaits modifyBinary(file, r.out), r the result of the transform
Writing(r) ==
    [pc |-> "write", status |-> r.status, result |-> r.out, notice |-> ""]

\* modifyBinary is called whatever the transform gave
modifyBinary_Reached_Always(r) == TRUE

\* main.ts:150-154, 171-176: modifyBinary comes after the transform in the try
\* block, so it is reached only if the transform returned
modifyBinary_Reached(r) == r.status = "ok"

\* no content counts as empty
encryptFile_IsEmpty_Never(content) == FALSE

\* main.ts:146: content.byteLength == 0
encryptFile_IsEmpty(content) == Len(content) = 0

\* main.ts:146-153: the calls of encryptFile to the core, "return" of line 148
\* comes before Encrypt.encryptText
encryptFile_calls(content) ==
    IF encryptFile_IsEmpty(content) THEN <<>> ELSE <<"encryptText">>

\* the calls an operation makes once its content is read: main.ts:146-153,
\* 171-174; none if readBinary threw
CallsOf(kind, file, content) ==
    IF file = NullFile THEN <<>>
    ELSE IF kind = "encrypt" THEN encryptFile_calls(content)
    ELSE <<"decryptText">>

\* the name of the method of an operation
MethodOf(kind) == IF kind = "encrypt" THEN "encryptFile" ELSE "decryptFile"

\* main.ts:146-158, r the outcome of Encrypt.encryptText on the content
encryptFile_try(content, r) ==
    IF encryptFile_IsEmpty(content) THEN Ended("empty", NOTICE_EMPTY)
    ELSE IF modifyBinary_Reached(r) THEN Writing(r)
    ELSE Ended("error", NOTICE_ENCRYPT_FAILED \o r.msg)

\* main.ts:171-180, r the outcome of Encrypt.decryptText on the content
decryptFile_try(r) ==
    IF modifyBinary_Reached(r) THEN Writing(r)
    ELSE Ended("error", NOTICE_DECRYPT_FAILED \o r.msg)

\* main.ts:144-158, from the content read to the next await or the end
encryptFile_resume(content, key, magic) ==
    encryptFile_try(content, encryptText(content, key, magic))

\* main.ts:163-180, from the content read to the next await or the end
decryptFile_resume(content, key, magic) ==
    decryptFile_try(decryptText(content, key, magic))

\* main.ts:144, 163 with no file: readBinary throws, the catch block runs
readBinary_failed(kind) ==
    Ended("error", (IF kind = "encrypt" THEN NOTICE_ENCRYPT_FAILED
                    ELSE NOTICE_DECRYPT_FAILED) \o MSG_NULL_FILE)

\* the operations a handler starts, appended in the order of their start
Started(list, new) == list \o new

\* main.ts:70-72 the other way round: encryptFile first
FileOpenStarts_EncryptFirst(file, last) ==
    (IF last # NullFile THEN <<NewOp("encrypt", last)>> ELSE <<>>)
        \o <<NewOp("decrypt", file)>>

\* main.ts:70-72: decryptFile(file), then encryptFile(lastActiveFile) if there
\* is one; neither call is awaited
FileOpenStarts(file, last) ==
    <<NewOp("decrypt", file)>>
        \o (IF last # NullFile THEN <<NewOp("encrypt", last)>> ELSE <<>>)

\* main.ts:63-65: the callback is called if there is one; it redraws the
\* document list (main.ts:192) and changes nothing kept here
onFileOpen_calls(callback) ==
    IF callback # "undefined" THEN <<"onFileOpen">> ELSE <<>>

\* every file of the vault is encrypted, whichever was active
QuitStarts_EveryFile(last) ==
    <<NewOp("encrypt", "A"), NewOp("encrypt", "B")>>

\* main.ts:81-83: encryptFile(lastActiveFile) if there is one, not awaited
QuitStarts(last) ==
    IF last # NullFile THEN <<NewOp("encrypt", last)>> ELSE <<>>

\* the handlers go on whatever the setting is
AutoMode_Always(s) == TRUE

\* main.ts:66-67, 78-79: if (!this.settings.autoEncryptionDecryption) return
AutoMode(s) == s.autoEncryptionDecryption

\* main.ts:62-75: the "file-open" handler
FileOpen(file) ==
    /\ delivered.opens < MaxOpens /\ ~delivered.quit
    /\ Len(ops) <= MaxPending
    /\ delivered' = [delivered EXCEPT !.opens = @ + 1, !.lastOpened = file]
    /\ called' = Ran("file-open", onFileOpen_calls(onFileOpen))
    /\ IF AutoMode(settings) /\ file # lastActiveFile
       THEN /\ ops' = Started(ops, FileOpenStarts(file, lastActiveFile))
            /\ lastActiveFile' = file
       ELSE UNCHANGED <<ops, lastActiveFile>>
    /\ UNCHANGED <<files, initialFiles, settings, notice, handlers>>
    /\ UNCHANGED <<saved, tab, onFileOpen>>
    /\ UNCHANGED coreVars

\* main.ts:77-84: the "quit" handler
Quit ==
    /\ ~delivered.quit
    /\ Len(ops) <= MaxPending
    /\ delivered' = [delivered EXCEPT !.quit = TRUE]
    /\ called' = Ran("quit", <<>>)
    /\ IF AutoMode(settings)
       THEN ops' = Started(ops, QuitStarts(lastActiveFile))
       ELSE UNCHANGED ops
    /\ UNCHANGED <<files, initialFiles, settings, lastActiveFile, notice, handlers>>
    /\ UNCHANGED <<saved, tab, onFileOpen>>
    /\ UNCHANGED coreVars

\* main.ts:279-282: the encrypt button of a file of the list; the leaf it
\* detaches afterwards holds nothing kept here
ClickEncrypt(file) ==
    /\ delivered.clicks < MaxClicks
    /\ Len(ops) <= MaxPending
    /\ delivered' = [delivered EXCEPT !.clicks = @ + 1]
    /\ ops' = Started(ops, <<NewOp("encrypt", file)>>)
    /\ called' = Ran("click", <<>>)
    /\ UNCHANGED <<files, initialFiles, settings, lastActiveFile, notice, handlers>>
    /\ UNCHANGED <<saved, tab, onFileOpen>>
    /\ UNCHANGED coreVars

\* main.ts:286-289: the decrypt button of a file of the list; the openFile
\* that follows is a "file-open" the workspace delivers
ClickDecrypt(file) ==
    /\ delivered.clicks < MaxClicks
    /\ Len(ops) <= MaxPending
    /\ delivered' = [delivered EXCEPT !.clicks = @ + 1]
    /\ ops' = Started(ops, <<NewOp("decrypt", file)>>)
    /\ called' = Ran("click", <<>>)
    /\ UNCHANGED <<files, initialFiles, settings, lastActiveFile, notice, handlers>>
    /\ UNCHANGED <<saved, tab, onFileOpen>>
    /\ UNCHANGED coreVars

\* the sequence without its i-th element
RemoveAt(list, i) == SubSeq(list, 1, i - 1) \o SubSeq(list, i + 1, Len(list))

\* an operation in progress after a step; one that has ended is dropped
OpsAfter(list, i, content, step) ==
    IF step.pc = "done" THEN RemoveAt(list, i)
    ELSE [list EXCEPT ![i] = [@ EXCEPT !.pc = step.pc, !.status = step.status,
                                       !.content = content, !.result = step.result]]

\* readBinary of operation i resolves (or throws): main.ts:144-158, 163-180
OpRead(i) ==
    /\ ops[i].pc = "read"
    /\ LET op == ops[i]
           content == IF op.file = NullFile THEN <<>> ELSE files[op.file]
       IN  \E step \in
               {IF op.file = NullFile THEN readBinary_failed(op.kind)
                ELSE IF op.kind = "encrypt"
                THEN encryptFile_resume(content, settings.encryptionKey, MAGIC_WORDS)
                ELSE decryptFile_resume(content, settings.encryptionKey, MAGIC_WORDS)} :
               /\ ops' = OpsAfter(ops, i, content, step)
               /\ notice' = IF step.pc = "done" THEN step.notice ELSE notice
               /\ called' = Ran(MethodOf(op.kind), CallsOf(op.kind, op.file, content))
               /\ MAGIC_WORDS' =
                      IF op.kind = "encrypt" /\ step.pc = "write"
                      THEN encryptText_MAGIC_WORDS(MAGIC_WORDS,
                               encryptText_ciphertext(content, settings.encryptionKey))
                      ELSE MAGIC_WORDS
    /\ UNCHANGED <<files, initialFiles, settings, lastActiveFile, handlers, delivered>>
    /\ UNCHANGED <<saved, tab, onFileOpen>>
    /\ UNCHANGED <<heap, Encrypt_key, keys, log>>

\* modifyBinary of operation i resolves: main.ts:154-155, 176-177
OpWrite(i) ==
    /\ ops[i].pc = "write"
    /\ files' = [files EXCEPT ![ops[i].file] = ops[i].result]
    /\ ops' = RemoveAt(ops, i)
    /\ notice' = IF ops[i].kind = "encrypt" THEN NOTICE_ENCRYPTED ELSE NOTICE_DECRYPTED
    /\ called' = Ran(MethodOf(ops[i].kind), <<>>)
    /\ UNCHANGED <<initialFiles, settings, lastActiveFile, handlers, delivered>>
    /\ UNCHANGED <<saved, tab, onFileOpen>>
    /\ UNCHANGED coreVars

\* the plugin loaded over a vault of two files, no caller of the core beside it
InitHost(keySet, autoSet) ==
    /\ heap = <<>> /\ keys = <<>> /\ log = <<>>
    /\ MAGIC_WORDS = MAGIC_WORDS_Init
    /\ Encrypt_key = "undefined"
    /\ \E vault \in Vaults, key \in keySet, auto \in autoSet :
        PluginLoaded(vault, [encryptionKey |-> key,
                             autoEncryptionDecryption |-> auto])

\* automatic mode: the workspace delivers "file-open" and "quit"
InitAuto == InitHost({HostKey, KeyNull}, BOOLEAN)

NextAuto ==
    \/ \E file \in Files \cup {NullFile} : FileOpen(file)
    \/ Quit
    \/ \E i \in DOMAIN ops : OpRead(i)
    \/ \E i \in DOMAIN ops : OpWrite(i)

SpecAuto == InitAuto /\ [][NextAuto]_vars

\* the document list: the user clicks the buttons of the files
InitButtons == InitHost({HostKey, KeyNull}, {FALSE})

NextButtons ==
    \/ \E file \in Files : ClickEncrypt(file)
    \/ \E file \in Files : ClickDecrypt(file)
    \/ \E i \in DOMAIN ops : OpRead(i)
    \/ \E i \in DOMAIN ops : OpWrite(i)

SpecButtons == InitButtons /\ [][NextButtons]_vars

----------------------------------------------------------------------------
(* The settings tab of src/main.ts (EncryptSettingTab) and the view that    *)
(* registers the onFileOpen callback.  saveSettings writes the settings to  *)
(* data.json.                                                               *)

\* the texts of the Notices of the generate-key button (translated)
NOTICE_NO_CREDENTIALS == "no username or password entered"
NOTICE_KEY_GENERATED == "new encryption key generated"

\* the white space String.prototype.trim removes, among the characters used
IsWhiteSpace(c) == c \in {9, 10, 11, 12, 13, 32, 160}

\* String.prototype.trim
Trim(str) ==
    LET kept == {i \in 1..Len(str) : ~IsWhiteSpace(str[i])}
    IN  IF kept = {} THEN <<>>
        ELSE SubSeq(str, CHOOSE i \in kept : \A j \in kept : i <= j,
                         CHOOSE i \in kept : \A j \in kept : j <= i)

\* main.ts:392: !this.username?.trim() || !this.password?.trim()
generateKey_Rejects(username, password) ==
    Trim(username) = <<>> \/ Trim(password) = <<>>

\* SHA-256 is library code: it is modelled as a function of all characters
\* of the string, in order
RECURSIVE Sha256Mix(_, _)
Sha256Mix(str, h) ==
    IF str = <<>> THEN h
    ELSE Sha256Mix(Tail(str), (h * 131 + str[1] + 1) % 65521)

\* CryptoJS.SHA256(str).toString(): the 32 bytes of the digest as 64
\* digits of lower-case hexadecimal
Sha256Hex(str) ==
    LET HexDigit(n) == IF n < 10 THEN 48 + n ELSE 87 + n
    IN  [i \in 1..64 |->
            HexDigit((((Sha256Mix(str, 7) + i) * (2 * i + 1)) \div 3) % 16)]

\* main.ts:398-403: 16 digits of the digest of the username, then the 64 of
\* the digest of the password; the randomKey of lines 396-397 is not used
generateKey(username, password) ==
    Slice(Sha256Hex(username), 0, 16) \o Slice(Sha256Hex(password), 0, 64)

\* the toggle writes the settings anew from the defaults
autoToggle_write_FromDefaults(s, value) ==
    [DEFAULT_SETTINGS EXCEPT !.autoEncryptionDecryption = value]

\* main.ts:348: this.plugin.settings.autoEncryptionDecryption = value
autoToggle_write(s, value) == [s EXCEPT !.autoEncryptionDecryption = value]

\* what the user types into the username and the password field
Usernames == {<<32>>, <<97, 108>>}
Passwords == {<<112, 119>>}

\* an event of the settings tab is delivered
Edit == /\ delivered.edits < MaxEdits
        /\ delivered' = [delivered EXCEPT !.edits = @ + 1]

\* main.ts:376-378: the username field
UsernameChanged(value) ==
    /\ Edit
    /\ tab' = [tab EXCEPT !.username = value]
    /\ called' = Ran("username-field", <<>>)
    /\ UNCHANGED <<files, initialFiles, settings, lastActiveFile, ops, notice, handlers>>
    /\ UNCHANGED <<saved, onFileOpen>>
    /\ UNCHANGED coreVars

\* main.ts:383-385: the password field
PasswordChanged(value) ==
    /\ Edit
    /\ tab' = [tab EXCEPT !.password = value]
    /\ called' = Ran("password-field", <<>>)
    /\ UNCHANGED <<files, initialFiles, settings, lastActiveFile, ops, notice, handlers>>
    /\ UNCHANGED <<saved, onFileOpen>>
    /\ UNCHANGED coreVars

\* main.ts:363-366: the key field
KeyChanged(value) ==
    /\ Edit
    /\ settings' = [settings EXCEPT !.encryptionKey = value]
    /\ saved' = settings'
    /\ called' = Ran("key-field", <<"saveData">>)
    /\ UNCHANGED <<files, initialFiles, lastActiveFile, ops, notice, handlers>>
    /\ UNCHANGED <<tab, onFileOpen>>
    /\ UNCHANGED coreVars

\* main.ts:347-349: the toggle of the automatic mode; nothing is saved
AutoToggled ==
    /\ Edit
    /\ settings' = autoToggle_write(settings, ~settings.autoEncryptionDecryption)
    /\ called' = Ran("auto-toggle", <<>>)
    /\ UNCHANGED <<files, initialFiles, lastActiveFile, ops, notice, handlers>>
    /\ UNCHANGED <<saved, tab, onFileOpen>>
    /\ UNCHANGED coreVars

\* main.ts:321-324, 335-338: a directory field; the settings are saved as
\* they are
DirectoryChanged ==
    /\ Edit
    /\ saved' = settings
    /\ called' = Ran("directory-field", <<"saveData">>)
    /\ UNCHANGED <<files, initialFiles, settings, lastActiveFile, ops, notice, handlers>>
    /\ UNCHANGED <<tab, onFileOpen>>
    /\ UNCHANGED coreVars

\* main.ts:391-408: the generate-key button; display() of line 407 draws the
\* tab again from the same fields
GenerateKey ==
    /\ Edit
    /\ IF generateKey_Rejects(tab.username, tab.password)
       THEN /\ notice' = NOTICE_NO_CREDENTIALS
            /\ called' = Ran("generate-key", <<>>)
            /\ UNCHANGED <<settings, saved>>
       ELSE /\ settings' = [settings EXCEPT
                               !.encryptionKey = generateKey(tab.username, tab.password)]
            /\ saved' = settings'
            /\ notice' = NOTICE_KEY_GENERATED
            /\ called' = Ran("generate-key", <<"saveData">>)
    /\ UNCHANGED <<files, initialFiles, lastActiveFile, ops, handlers>>
    /\ UNCHANGED <<tab, onFileOpen>>
    /\ UNCHANGED coreVars

\* main.ts:189-194, 87-90: the document list is constructed and registers
\* its callback
ViewConstructed ==
    /\ onFileOpen = "undefined"
    /\ onFileOpen' = "refresh"
    /\ called' = Ran("view", <<>>)
    /\ UNCHANGED <<files, initialFiles, settings, lastActiveFile, ops, notice, handlers,
                   delivered, saved, tab>>
    /\ UNCHANGED coreVars

\* the plugin loaded over the encrypted vault with the key of the vault
InitSettings == InitHost({HostKey}, BOOLEAN) /\ files = Encrypted

\* the user works in the settings tab while the workspace delivers events
NextSettings ==
    \/ /\ delivered.edits + delivered.opens + (IF delivered.quit THEN 1 ELSE 0) < MaxEdits
       /\ \/ \E value \in Usernames : UsernameChanged(value)
          \/ \E value \in Passwords : PasswordChanged(value)
          \/ \E value \in {KeyShort} : KeyChanged(value)
          \/ AutoToggled
          \/ DirectoryChanged
          \/ GenerateKey
          \/ \E file \in Files : FileOpen(file)
          \/ Quit
    \/ ViewConstructed
    \/ \E i \in DOMAIN ops : OpRead(i)
    \/ \E i \in DOMAIN ops : OpWrite(i)

SpecSettings == InitSettings /\ [][NextSettings]_vars

----------------------------------------------------------------------------
(* The other plugin source of the repository (src/unnamed/part_000).  Its   *)
(* Encrypt writes no marker, its encryptFile / decryptFile are those above, *)
(* and its "file-open" and "quit" handlers are async: they await the        *)
(* operations they start, so an invocation stays in progress over several   *)
(* awaits and invocations overlap.                                          *)

\* part_000:73: the prefix its decryptText puts before every message
part000_MSG_DECRYPT_PREFIX == "decryption failed: "

\* part_000:19-40: encryptText, the ciphertext alone
part000_encryptText(buffer, key) ==
    LET ciphertext == encryptText_ciphertext(buffer, key)
    IN  IF KeySliceThrows(key)
        THEN Thrown(encryptText_catch(MSG_NULL_SLICE), FALSE)
        ELSE IF NewArrayBufferThrows(ciphertext.sigBytes)
        THEN Thrown(encryptText_catch(MSG_RANGE), TRUE)
        ELSE Returned(wordArrayToArrayBuffer(ciphertext))

\* part_000:43-75: decryptText, no check before the cipher
part000_decryptText(buffer, key) ==
    LET bytes == AesDecrypt(WordArrayCreate(buffer), DerivedKey(key), DerivedIV(key))
    IN  IF KeySliceThrows(key)
        THEN Thrown(part000_MSG_DECRYPT_PREFIX \o MSG_NULL_SLICE, FALSE)
        ELSE IF NewArrayBufferThrows(bytes.sigBytes)
        THEN Thrown(part000_MSG_DECRYPT_PREFIX \o MSG_RANGE, TRUE)
        ELSE Returned(wordArrayToArrayBuffer(bytes))

\* the vaults a run of this plugin starts from: every file encrypted by it, or
\* all but file "A", which holds its plaintext
part000_Encrypted == [f \in Files |-> part000_encryptText(PlainFile(f), HostKey).out]
part000_Vaults == {part000_Encrypted,
                   [part000_Encrypted EXCEPT !["A"] = PlainFile("A")]}

\* no operation
NoOp == NewOp("none", NullFile)

\* an invocation of a handler that awaits operation op
Awaiting(event, file, pc, op) == [event |-> event, file |-> file, pc |-> pc, op |-> op]

\* part_000:147-162 from its start to its first await
part000_FileOpen(file) ==
    /\ delivered.opens < MaxOpens /\ ~delivered.quit
    /\ Len(handlers) <= MaxPending
    /\ delivered' = [delivered EXCEPT !.opens = @ + 1, !.lastOpened = file]
    /\ called' = Ran("file-open", onFileOpen_calls(onFileOpen))
    /\ IF ~settings.autoEncryptionDecryption
       THEN UNCHANGED <<handlers, lastActiveFile>>
       ELSE IF file # lastActiveFile
       THEN /\ handlers' = Append(handlers,
                               Awaiting("file-open", file, "decrypt", NewOp("decrypt", file)))
            /\ UNCHANGED lastActiveFile
       ELSE /\ handlers' = Append(handlers, Awaiting("file-open", file, "open", NoOp))
            /\ UNCHANGED lastActiveFile
    /\ UNCHANGED <<files, initialFiles, settings, ops, notice>>
    /\ UNCHANGED <<saved, tab, onFileOpen>>
    /\ UNCHANGED coreVars

\* part_000:164-171 from its start to its await
part000_Quit ==
    /\ ~delivered.quit
    /\ Len(handlers) <= MaxPending
    /\ delivered' = [delivered EXCEPT !.quit = TRUE]
    /\ called' = Ran("quit", <<>>)
    /\ IF settings.autoEncryptionDecryption /\ lastActiveFile # NullFile
       THEN handlers' = Append(handlers,
                               Awaiting("quit", NullFile, "encrypt",
                                        NewOp("encrypt", lastActiveFile)))
       ELSE UNCHANGED handlers
    /\ UNCHANGED <<files, initialFiles, settings, lastActiveFile, ops, notice>>
    /\ UNCHANGED <<saved, tab, onFileOpen>>
    /\ UNCHANGED coreVars

\* invocation h resumed after the operation it awaited has ended, up to its
\* next await: part_000:156-161, 170
part000_Resumed(h, last) ==
    IF h.event = "quit" THEN <<>>
    ELSE IF h.pc = "decrypt" /\ last # NullFile
    THEN <<Awaiting(h.event, h.file, "encrypt", NewOp("encrypt", last))>>
    ELSE <<Awaiting(h.event, h.file, "open", NoOp)>>

\* lastActiveFile after invocation h was resumed as above: part_000:158,
\* this.lastActiveFile = file, comes after the awaits of lines 155-157
part000_lastActiveFile(h, last) ==
    IF h.event = "file-open" /\ (h.pc = "encrypt" \/ last = NullFile)
    THEN h.file
    ELSE last

\* the list with its i-th element replaced by the elements of new
ReplaceAt(list, i, new) ==
    SubSeq(list, 1, i - 1) \o new \o SubSeq(list, i + 1, Len(list))

\* readBinary of the operation invocation i awaits resolves (or throws):
\* part_000:229-242, 247-256
part000_OpRead(i) ==
    /\ handlers[i].pc \in {"decrypt", "encrypt"}
    /\ handlers[i].op.pc = "read"
    /\ LET h == handlers[i]
           op == h.op
           content == IF op.file = NullFile THEN <<>> ELSE files[op.file]
       IN  \E step \in
               {IF op.file = NullFile THEN readBinary_failed(op.kind)
                ELSE IF op.kind = "encrypt"
                THEN encryptFile_try(content,
                         part000_encryptText(content, settings.encryptionKey))
                ELSE decryptFile_try(
                         part000_decryptText(content, settings.encryptionKey))} :
               /\ called' = Ran(MethodOf(op.kind), CallsOf(op.kind, op.file, content))
               /\ IF step.pc = "done"
                  THEN /\ handlers' = ReplaceAt(handlers, i,
                                                part000_Resumed(h, lastActiveFile))
                       /\ lastActiveFile' = part000_lastActiveFile(h, lastActiveFile)
                       /\ notice' = step.notice
                  ELSE /\ handlers' = [handlers EXCEPT
                                          ![i].op = OpsAfter(<<op>>, 1, content, step)[1]]
                       /\ UNCHANGED <<lastActiveFile, notice>>
    /\ UNCHANGED <<files, initialFiles, settings, ops, delivered>>
    /\ UNCHANGED <<saved, tab, onFileOpen>>
    /\ UNCHANGED coreVars

\* modifyBinary of the operation invocation i awaits resolves:
\* part_000:238-239, 252-253
part000_OpWrite(i) ==
    /\ handlers[i].pc \in {"decrypt", "encrypt"}
    /\ handlers[i].op.pc = "write"
    /\ files' = [files EXCEPT ![handlers[i].op.file] = handlers[i].op.result]
    /\ notice' = IF handlers[i].op.kind = "encrypt" THEN NOTICE_ENCRYPTED
                 ELSE NOTICE_DECRYPTED
    /\ handlers' = ReplaceAt(handlers, i, part000_Resumed(handlers[i], lastActiveFile))
    /\ called' = Ran(MethodOf(handlers[i].op.kind), <<>>)
    /\ lastActiveFile' = part000_lastActiveFile(handlers[i], lastActiveFile)
    /\ UNCHANGED <<initialFiles, settings, ops, delivered>>
    /\ UNCHANGED <<saved, tab, onFileOpen>>
    /\ UNCHANGED coreVars

\* part_000:161: openFile(file) resolves and the invocation ends
part000_Opened(i) ==
    /\ handlers[i].pc = "open"
    /\ handlers' = RemoveAt(handlers, i)
    /\ called' = Ran("file-open", <<>>)
    /\ UNCHANGED <<files, initialFiles, settings, lastActiveFile, ops, notice, delivered>>
    /\ UNCHANGED <<saved, tab, onFileOpen>>
    /\ UNCHANGED coreVars

part000_Init ==
    /\ heap = <<>> /\ keys = <<>> /\ log = <<>>
    /\ MAGIC_WORDS = MAGIC_WORDS_Init
    /\ Encrypt_key = "undefined"
    /\ \E vault \in part000_Vaults, auto \in BOOLEAN :
        PluginLoaded(vault, [encryptionKey |-> HostKey,
                             autoEncryptionDecryption |-> auto])

part000_Next ==
    \/ \E file \in Files \cup {NullFile} : part000_FileOpen(file)
    \/ part000_Quit
    \/ \E i \in DOMAIN handlers : part000_OpRead(i)
    \/ \E i \in DOMAIN handlers : part000_OpWrite(i)
    \/ \E i \in DOMAIN handlers : part000_Opened(i)

SpecAwait == part000_Init /\ [][part000_Next]_vars

\* Date.now() is beyond the integers of the model: a time is kept as the
\* decimal digits the template literal of part_000:836 turns it into
Times == {<<49, 55>> \o [i \in 1..11 |-> 48], <<49, 55>> \o [i \in 1..11 |-> 49]}

\* part_000:836: `${this.username}-${this.password}-${Date.now()}`
part000_generateKey(username, password, now) ==
    username \o <<45>> \o password \o <<45>> \o now

\* part_000:824-840: the generate-key button
part000_GenerateKey ==
    /\ Edit
    /\ IF generateKey_Rejects(tab.username, tab.password)
       THEN /\ notice' = NOTICE_NO_CREDENTIALS
            /\ called' = Ran("generate-key", <<>>)
            /\ UNCHANGED <<settings, saved>>
       ELSE \E now \in Times :
            /\ settings' = [settings EXCEPT
                               !.encryptionKey =
                                   part000_generateKey(tab.username, tab.password, now)]
            /\ saved' = settings'
            /\ notice' = NOTICE_KEY_GENERATED
            /\ called' = Ran("generate-key", <<"saveData">>)
    /\ UNCHANGED <<files, initialFiles, lastActiveFile, ops, handlers>>
    /\ UNCHANGED <<tab, onFileOpen>>
    /\ UNCHANGED coreVars

\* part_000:781-784: the toggle of the automatic mode, saved
part000_AutoToggled ==
    /\ Edit
    /\ settings' = autoToggle_write(settings, ~settings.autoEncryptionDecryption)
    /\ saved' = settings'
    /\ called' = Ran("auto-toggle", <<"saveData">>)
    /\ UNCHANGED <<files, initialFiles, lastActiveFile, ops, notice, handlers>>
    /\ UNCHANGED <<tab, onFileOpen>>
    /\ UNCHANGED coreVars

\* the settings tab of part_000; its text fields are those of src/main.ts
part000_NextSettings ==
    \/ \E value \in Usernames : UsernameChanged(value)
    \/ \E value \in Passwords : PasswordChanged(value)
    \/ \E value \in {KeyShort} : KeyChanged(value)
    \/ part000_AutoToggled
    \/ part000_GenerateKey

part000_SpecSettings == part000_Init /\ [][part000_NextSettings]_vars

----------------------------------------------------------------------------
(* What the claims speak of.                                               *)

Calls == 1..Len(log)

IsAscii(key) == \A i \in 1..Len(key) : key[i] < 128

\* an ASCII key string of at least 48 characters
GoodKey(key) == Len(key) >= KEY_END /\ IsAscii(key)

\* call j decrypts, with key string key, the buffer that call i returned from
\* encrypting under its own key string
RoundTrip(i, j) ==
    /\ i < j
    /\ log[i].op = "encrypt" /\ log[i].status = "ok"
    /\ log[j].op = "decrypt" /\ log[j].buf = log[i].out

\* call j gave back the plaintext of call i
GaveBack(i, j) == log[j].status = "ok" /\ log[j].outp = log[i].inp

\* the buffer starts with the marker bytes
HasMarker(bytes) == Len(bytes) >= 4 /\ SubSeq(bytes, 1, 4) = MarkerBytes

\* C1: decrypting, with the same ASCII key string of at least 48 characters, what
\* encryptText returned for a plaintext gives back exactly that plaintext, for
\* plaintext lengths that are and that are not multiples of 16.
C1_RoundTrip ==
    \A i, j \in Calls :
        (RoundTrip(i, j) /\ log[j].key = log[i].key /\ GoodKey(log[i].key))
            => GaveBack(i, j)

\* a round trip of a 16-byte plaintext (two cipher blocks) has been made
C1_Witness ==
    \E i, j \in Calls :
        /\ RoundTrip(i, j) /\ log[j].key = log[i].key /\ GoodKey(log[i].key)
        /\ Len(log[i].inp) = BLOCK_BYTES
        /\ GaveBack(i, j)

IvDiffersOnData(k1, k2, plain) ==
    /\ GoodKey(k1) /\ GoodKey(k2)
    /\ Slice(k1, IV_END, KEY_END) = Slice(k2, IV_END, KEY_END)
    /\ \E p \in 1..IV_END : k1[p] # k2[p] /\ (p <= Len(plain) \/ p = IV_END)

C3_ShortFrame ==
    \A j \in Calls :
        (log[j].op = "decrypt" /\ Len(log[j].inp) < 4)
            => /\ log[j].status = "error"
               /\ log[j].msg = MSG_INVALID_FRAME
               /\ ~log[j].cipher

\* decryptText has been called on a 3-byte buffer
C3_Witness ==
    \E j \in Calls :
        log[j].op = "decrypt" /\ Len(log[j].inp) = 3 /\ log[j].status = "error"

\* C4: decryptText on a buffer of at least 4 bytes that does not start with
\* 00 02 73 DB throws "not valid ciphertext" and does not reach the cipher.
C4_MarkerMismatch ==
    \A j \in Calls :
        (log[j].op = "decrypt" /\ Len(log[j].inp) >= 4 /\ ~HasMarker(log[j].inp))
            => /\ log[j].status = "error"
               /\ log[j].msg = MSG_INVALID_FRAME
               /\ ~log[j].cipher

\* decryptText has been called on 20 bytes whose fourth byte alone differs
\* from the marker
C4_Witness ==
    \E j \in Calls :
        /\ log[j].op = "decrypt" /\ log[j].status = "error"
        /\ Len(log[j].inp) = 20 /\ SubSeq(log[j].inp, 1, 4) = <<0, 2, 115, 220>>

\* C5: with an ASCII key string of at least 48 characters encryptText returns,
\* for a plaintext of n bytes, 4 + 16 * (n \div 16 + 1) bytes that start with
\* 00 02 73 DB.
C5_FrameFormat ==
    \A i \in Calls :
        (log[i].op = "encrypt" /\ GoodKey(log[i].key))
            => /\ log[i].status = "ok"
               /\ Len(log[i].outp) = 4 + 16 * ((Len(log[i].inp) \div 16) + 1)
               /\ SubSeq(log[i].outp, 1, 4) = <<0, 2, 115, 219>>

\* an 11-byte plaintext has been encrypted into a 20-byte frame
C5_Witness ==
    \E i \in Calls :
        /\ log[i].op = "encrypt" /\ GoodKey(log[i].key)
        /\ Len(log[i].inp) = 11 /\ Len(log[i].outp) = 20

\* the outcome of a call, as its caller sees it
Outcome(r) == [status |-> r.status, msg |-> r.msg, out |-> r.outp]

\* C6: two calls of encryptText with the same plaintext bytes and the same key
\* string have the same outcome, whatever was called in between.
C6_Determinism ==
    \A i, j \in Calls :
        (/\ log[i].op = "encrypt" /\ log[j].op = "encrypt"
         /\ log[i].inp = log[j].inp /\ log[i].key = log[j].key)
            => Outcome(log[i]) = Outcome(log[j])

\* the same encryption has been made twice, with a call under another key
\* string in between
C6_Witness ==
    \E i, j \in Calls :
        /\ i + 1 < j
        /\ log[i].op = "encrypt" /\ log[j].op = "encrypt"
        /\ log[i].inp = log[j].inp /\ log[i].key = log[j].key
        /\ log[i].status = "ok"
        /\ log[i + 1].key # log[i].key

\* the iv is not 16 bytes or the cipher key is not 16, 24 or 32 bytes
BadKeyMaterial(key) ==
    \/ Len(TextEncode(Slice(key, 0, IV_END))) # 16
    \/ Len(TextEncode(Slice(key, IV_END, KEY_END))) \notin {16, 24, 32}

\* C7: a call whose key string yields an iv of other than 16 bytes, or a cipher
\* key of other than 16, 24 or 32 bytes, fails and returns no result.
C7_BadKeyMaterialFails ==
    \A i \in Calls : BadKeyMaterial(log[i].key) => log[i].status = "error"

\* the data has Pkcs7 padding: whole blocks, ending in n bytes n, 1 <= n <= 16
ValidPadding(data) ==
    LET b == BytesOf(data)
        n == Len(b)
    IN  /\ n >= BLOCK_BYTES /\ n % BLOCK_BYTES = 0
        /\ b[n] >= 1 /\ b[n] <= BLOCK_BYTES
        /\ \A k \in (n - b[n] + 1)..n : b[k] = b[n]

\* what the inverse cipher transform yields for the frame inp under key
RawPlain(inp, key) ==
    AesDecryptRaw(StripMarker(WordArrayCreate(inp), MAGIC_WORDS_Init),
                  DerivedKey(key), DerivedIV(key))

\* C8: decryptText on a buffer with the marker whose deciphered data has no
\* valid padding throws "check key correctness" and returns no buffer.
C8_BadPaddingFails ==
    \A j \in Calls :
        (/\ log[j].op = "decrypt" /\ HasMarker(log[j].inp)
         /\ ~ValidPadding(RawPlain(log[j].inp, log[j].key)))
            => log[j].status = "error" /\ log[j].msg = MSG_CHECK_KEY

\* C9: a call leaves the bytes and the length of its input buffer as they were,
\* also when it fails, and a buffer it returns did not exist before the call.
C9_InputUnchanged ==
    \A i \in Calls :
        /\ heap[log[i].buf] = log[i].inp
        /\ log[i].status = "ok" =>
               /\ log[i].out > log[i].bufs
               /\ log[i].out # log[i].buf
               /\ heap[log[i].out] = log[i].outp

\* a call has returned a buffer and a later call on that buffer has failed
C9_Witness ==
    \E i, j \in Calls :
        /\ i < j
        /\ log[i].status = "ok" /\ log[i].inp # <<>>
        /\ log[j].buf = log[i].out /\ log[j].status = "error"

\* the outcome of the call of log entry r made alone, with the module as it is
\* after loading
Alone(r) ==
    LET x == IF r.op = "encrypt" THEN encryptText(r.inp, r.key, MAGIC_WORDS_Init)
             ELSE decryptText(r.inp, r.key, MAGIC_WORDS_Init)
    IN  [status |-> x.status, msg |-> x.msg, out |-> x.out]

----------------------------------------------------------------------------
(* C12 .. C15: the key material and the failures of the two methods.        *)

\* the two key strings have the same first 48 characters
AgreeOn48(k1, k2) == Slice(k1, 0, KEY_END) = Slice(k2, 0, KEY_END)

\* C12: two key strings that agree on their first 48 characters give the same
\* outcome for every encryptText and for every decryptText input.
C12_Only48Chars ==
    \A i, j \in Calls :
        (/\ log[i].op = log[j].op /\ log[i].inp = log[j].inp
         /\ AgreeOn48(log[i].key, log[j].key))
            => Outcome(log[i]) = Outcome(log[j])

\* the same input has gone through the same method under two different key
\* strings with the same first 48 characters, and a buffer came back
C12_Witness ==
    \E i, j \in Calls :
        /\ log[i].op = log[j].op /\ log[i].inp = log[j].inp
        /\ log[i].key # log[j].key /\ AgreeOn48(log[i].key, log[j].key)
        /\ log[i].status = "ok" /\ Len(log[i].outp) > 0

\* C13: every buffer decryptText returns a plaintext for has at least 4 + 16
\* bytes; a buffer of the marker alone is not decrypted successfully.
C13_ReturnsOnlyForFullFrames ==
    \A j \in Calls :
        (log[j].op = "decrypt" /\ log[j].status = "ok")
            => Len(log[j].inp) >= MAGIC_SIG_BYTES + BLOCK_BYTES

\* which of the three failures a failing decryptText call is
Kind(r) ==
    IF InvalidFrame(WordArrayCreate(r.inp), MAGIC_WORDS_Init) THEN "not ciphertext"
    ELSE IF BadKeyMaterial(r.key) THEN "bad key length"
    ELSE "wrong key"

\* C14: a failure on an invalid frame reaches the caller with its own message
\* and before the cipher is entered, and the message of every failing
\* decryptText call tells which of "not ciphertext", "wrong key" and "bad key
\* length" occurred: no message stands for two of them.
C14_ErrorKindsDistinct ==
    \A i, j \in Calls :
        (/\ log[i].op = "decrypt" /\ log[i].status = "error"
         /\ log[j].op = "decrypt" /\ log[j].status = "error")
            => /\ Kind(log[i]) = "not ciphertext"
                   => (log[i].msg = MSG_INVALID_FRAME /\ ~log[i].cipher)
               /\ log[i].msg = log[j].msg => Kind(log[i]) = Kind(log[j])

\* C15: a failure inside encryptText comes out as one error whose message is
\* the prefix followed by the message of the failure, and no buffer comes
\* back; a key.slice that throws is such a failure.
C15_EncryptFailureWrapped ==
    \A i \in Calls :
        log[i].op = "encrypt"
            => /\ KeySliceThrows(log[i].key)
                   => /\ log[i].status = "error"
                      /\ log[i].msg = MSG_ENCRYPT_PREFIX \o MSG_NULL_SLICE
               /\ log[i].status = "error"
                   => /\ SubSeq(log[i].msg, 1, Len(MSG_ENCRYPT_PREFIX)) = MSG_ENCRYPT_PREFIX
                      /\ log[i].out = 0 /\ log[i].outp = <<>>

\* encryptText has failed on a key that is no string
C15_Witness ==
    \E i \in Calls :
        /\ log[i].op = "encrypt" /\ KeySliceThrows(log[i].key)
        /\ log[i].status = "error"

----------------------------------------------------------------------------
(* C11, C16 .. C20: the plugin.                                              *)

\* the transform of operation op on the content it read
TransformOf(op) ==
    IF op.kind = "encrypt"
    THEN encryptText(op.content, settings.encryptionKey, MAGIC_WORDS)
    ELSE decryptText(op.content, settings.encryptionKey, MAGIC_WORDS)

\* operation i ends in this step without having reached modifyBinary
EndsAtRead(i) == ops[i].pc = "read" /\ ops' = RemoveAt(ops, i)

\* operation i writes the result of its successful transform in this step
WritesResult(i) ==
    /\ ops[i].pc = "write" /\ ops[i].status = "ok"
    /\ files' = [files EXCEPT ![ops[i].file] = ops[i].result]
    /\ \E r \in {TransformOf(ops[i])} : r.status = "ok" /\ ops[i].result = r.out

\* C11: an encryptFile / decryptFile whose readBinary or transform fails ends
\* without a write, the stored content staying what it was; a file is only
\* ever written with the whole result of a transform that succeeded.
C11_WriteAfterSuccess ==
    [][/\ \A i \in DOMAIN ops : EndsAtRead(i) => files' = files
       /\ files' # files => \E i \in DOMAIN ops : WritesResult(i)]_vars

\* a decryptFile has failed on a file that is no frame, an encryptFile has
\* written before it, and the file that is no frame is as it was
C11_Witness ==
    /\ notice = NOTICE_DECRYPT_FAILED \o MSG_INVALID_FRAME
    /\ files["A"] = initialFiles["A"]
    /\ files["B"] # initialFiles["B"]

\* C16: no two encryptFile / decryptFile cycles are in progress on the same
\* file at the same time.
C16_NoOverlap ==
    \A i, j \in DOMAIN ops :
        (ops[i].file = ops[j].file /\ ops[i].file # NullFile) => i = j

\* the run began in automatic mode with the key of the vault and every file
\* a frame of one layer
AutoOverEncryptedVault ==
    /\ settings.autoEncryptionDecryption
    /\ settings.encryptionKey = HostKey
    /\ initialFiles = Encrypted

\* C17: in automatic mode with a valid key over a vault of one-layer frames,
\* after "file-open" events and a "quit", when every operation has ended,
\* every file is stored as its one-layer frame again.
C17_NothingLeftDecrypted ==
    (AutoOverEncryptedVault /\ delivered.quit /\ ops = <<>>) => files = Encrypted

\* the "file-open" handler ran in automatic mode and none of its invocations
\* is in progress
FileOpenHandled ==
    /\ settings.autoEncryptionDecryption
    /\ delivered.opens > 0
    /\ \A i \in DOMAIN handlers : handlers[i].event # "file-open"

C19_FileOpenStep ==
    [][(delivered'.opens = delivered.opens + 1 /\ settings.autoEncryptionDecryption)
          => IF delivered'.lastOpened # lastActiveFile
             THEN /\ ops' = ops \o <<NewOp("decrypt", delivered'.lastOpened)>>
                              \o (IF lastActiveFile # NullFile
                                  THEN <<NewOp("encrypt", lastActiveFile)>>
                                  ELSE <<>>)
                  /\ lastActiveFile' = delivered'.lastOpened
             ELSE ops' = ops /\ lastActiveFile' = lastActiveFile]_vars

\* a "file-open" has just started decryptFile of the file opened and, after
\* it, encryptFile of the file open before
C19_Witness ==
    \E i \in DOMAIN ops :
        /\ i + 1 = Len(ops)
        /\ ops[i] = NewOp("decrypt", lastActiveFile)
        /\ ops[i + 1].kind = "encrypt" /\ ops[i + 1].pc = "read"
        /\ ops[i + 1].file \in Files \ {lastActiveFile}
        /\ delivered.lastOpened = lastActiveFile

\* the bytes are a frame whose plaintext under the key is a frame again
DoubleLayer(bytes, key) ==
    /\ HasMarker(bytes)
    /\ decryptText(bytes, key, MAGIC_WORDS).status = "ok"
    /\ HasMarker(decryptText(bytes, key, MAGIC_WORDS).out)

\* C20: encryptFile does not wrap a file that is a frame already in a second
\* layer: with the key unchanged no file comes to hold a frame of a frame,
\* so that one decryptFile gives the plaintext back.
C20_NoDoubleEncryption ==
    \A f \in DOMAIN files : ~DoubleLayer(files[f], settings.encryptionKey)

----------------------------------------------------------------------------
(* C21 .. C25: empty files, "quit", the settings tab.                        *)

\* operation i is resumed with the content read in this step
Resumes(i) ==
    /\ ops[i].pc = "read"
    /\ called'.by = MethodOf(ops[i].kind)
    /\ \/ ops' = RemoveAt(ops, i)
       \/ Len(ops') = Len(ops) /\ ops'[i].pc = "write"

\* operation i is an encryptFile on a file that holds no bytes
EncryptsEmptyFile(i) ==
    /\ ops[i].kind = "encrypt"
    /\ ops[i].file # NullFile
    /\ files[ops[i].file] = <<>>

\* C21: encryptFile on a file whose content has length 0 does not call
\* Encrypt.encryptText and does not write the file: it ends at once with the
\* Notice that the file is empty.
C21_EmptyRejected ==
    [][\A i \in DOMAIN ops :
          (Resumes(i) /\ EncryptsEmptyFile(i))
              => /\ called'.calls = <<>>
                 /\ ops' = RemoveAt(ops, i)
                 /\ files' = files
                 /\ notice' = NOTICE_EMPTY]_vars

\* an encryptFile has just ended on the empty file "A" with that Notice
C21_Witness ==
    /\ called = Ran("encryptFile", <<>>)
    /\ notice = NOTICE_EMPTY
    /\ files["A"] = <<>>

\* C22: a "quit" in automatic mode with a lastActiveFile starts one
\* encryptFile, on lastActiveFile, and nothing else; with no lastActiveFile
\* it starts nothing.  The handler itself writes no file and leaves
\* lastActiveFile alone.
C22_QuitInAutoMode ==
    [][(delivered'.quit /\ ~delivered.quit /\ settings.autoEncryptionDecryption)
          => /\ ops' = IF lastActiveFile # NullFile
                       THEN ops \o <<NewOp("encrypt", lastActiveFile)>>
                       ELSE ops
             /\ files' = files
             /\ lastActiveFile' = lastActiveFile]_vars

\* "quit" has just been handled in automatic mode and its encryptFile on
\* lastActiveFile is the operation started last
C22_Witness ==
    /\ called.by = "quit"
    /\ settings.autoEncryptionDecryption
    /\ lastActiveFile # NullFile
    /\ ops # <<>>
    /\ ops[Len(ops)] = NewOp("encrypt", lastActiveFile)

\* this step handles a "file-open" event
FileOpenDelivered == delivered'.opens = delivered.opens + 1

\* this step handles the "quit" event
QuitDelivered == delivered'.quit /\ ~delivered.quit

\* this step starts no operation, writes no file and leaves lastActiveFile
StartsNothing ==
    /\ ops' = ops
    /\ handlers' = handlers
    /\ files' = files
    /\ lastActiveFile' = lastActiveFile

\* C23: while autoEncryptionDecryption is false a "file-open" or "quit"
\* event starts no encryptFile or decryptFile, modifies no file and leaves
\* lastActiveFile unchanged; a registered onFileOpen callback is called on
\* every "file-open" all the same.
C23_AutoOffChangesNothing ==
    [][~settings.autoEncryptionDecryption
          => /\ (FileOpenDelivered \/ QuitDelivered) => StartsNothing
             /\ (FileOpenDelivered /\ onFileOpen # "undefined")
                    => called'.calls = <<"onFileOpen">>]_vars

\* automatic mode was switched off with "A" or "B" active, and a "file-open"
\* for another file has just called the callback and left lastActiveFile
C23_Witness ==
    /\ ~settings.autoEncryptionDecryption
    /\ called = Ran("file-open", <<"onFileOpen">>)
    /\ lastActiveFile # NullFile
    /\ delivered.lastOpened # lastActiveFile

\* the steps of the settings tab that write the key
WritesKey == {"key-field", "generate-key"}

\* the steps of encryptFile, decryptFile and the two handlers of the workspace
UsesKey == {"encryptFile", "decryptFile", "file-open", "quit"}

\* C24: settings.encryptionKey changes only in a step of the key field or of
\* the generate-key button; a step of encryptFile, of decryptFile, of the
\* "file-open" or of the "quit" handler, the calls to the core included,
\* leaves the settings, the saved settings and Encrypt.key as they were and
\* saves nothing.
C24_KeyChangesOnlyByUser ==
    [][/\ settings'.encryptionKey # settings.encryptionKey => called'.by \in WritesKey
       /\ called'.by \in UsesKey
              => /\ settings' = settings
                 /\ saved' = saved
                 /\ Encrypt_key' = Encrypt_key
                 /\ called'.calls \in {<<>>, <<"encryptText">>, <<"decryptText">>,
                                       <<"onFileOpen">>}]_vars

\* the user has replaced the key, the new key is saved, and an encryptFile or
\* decryptFile has just called the core
C24_Witness ==
    /\ settings.encryptionKey # HostKey
    /\ saved.encryptionKey = settings.encryptionKey
    /\ called.by \in {"encryptFile", "decryptFile"}
    /\ called.calls # <<>>

\* the string is empty or white space only
Blank(str) == \A i \in 1..Len(str) : IsWhiteSpace(str[i])

\* this step is a click on the generate-key button
GenerateKeyClicked ==
    delivered'.edits = delivered.edits + 1 /\ called'.by = "generate-key"

\* the step before this one was a click that generated a key
JustGenerated == called = Ran("generate-key", <<"saveData">>)

\* C25: a click on the generate-key button with a blank username or password
\* leaves settings.encryptionKey unchanged and saves nothing; otherwise the
\* new key has at least 48 characters, all ASCII, and depends on the
\* username and the password only: a second click over the same fields
\* gives the same key.
C25_GenerateKey ==
    [][GenerateKeyClicked
          => IF Blank(tab.username) \/ Blank(tab.password)
             THEN /\ settings' = settings
                  /\ saved' = saved
                  /\ called'.calls = <<>>
             ELSE /\ GoodKey(settings'.encryptionKey)
                  /\ JustGenerated
                         => settings'.encryptionKey = settings.encryptionKey]_vars

====
